---------------------------- MODULE Spec2Model ----------------------------
(***************************************************************************)
(* Model of the music-f-t single-page application:                         *)
(*   - src/context/AuthContext.tsx : the authentication context, with its  *)
(*     local (stored bearer token) and Auth0 (delegated) providers;        *)
(*   - src/index.tsx               : the application root;                 *)
(*   - src/unnamed/part_000        : the four administrative forms.        *)
(*                                                                         *)
(* JavaScript values are modelled as follows.                              *)
(*   - A token string is the sequence of its maximal dot-free chunks and   *)
(*     the dots between them, e.g. <<"hdr", ".", "eyJ...", ".", "sig">>.   *)
(*     The code tests tokens only by truthiness, so null and the empty     *)
(*     string are both the empty sequence.                                 *)
(*   - A JSON value is a record tagged with its type.                      *)
(*   - An input string whose characters matter (the e-mail box) is the     *)
(*     sequence of its characters.                                         *)
(* Every state update of a component is followed by the re-render React    *)
(* performs before the next event is handled; the values computed during   *)
(* render (isAuthenticated, isAdmin, roles) are kept in ctx.               *)
(***************************************************************************)
EXTENDS Integers, Sequences, FiniteSets, TLC

VARIABLES
    env,           \* import.meta.env: [domain, clientId]
    wrapped,       \* index.tsx: "none" before root.render, then "yes"/"no" (Auth0Provider around App)
    provider,      \* AuthProvider: "none" before the first render, then "Auth0" or "Local"
    localStorage,  \* localStorage[TOKEN_STORAGE_KEY]; Null when absent
    token,         \* AuthProviderLocal: useState token
    isLoading,     \* AuthProviderLocal: useState isLoading / useAuth0().isLoading
    ticks,         \* the clock, in half seconds
    renderNow,     \* nowSeconds read by the last render of the provider
    ctx,           \* the context value of the last render
    hash,          \* window.location.hash
    pending,       \* loginWithCredentials calls awaiting AuthService.login, in issue order
    lastOp,        \* history: the user operation issued last and its outcome
    getResult,     \* history: outcome of the getAccessToken call made by this step
    sdk,           \* useAuth0(): [isAuthenticated, version of getAccessTokenSilently]
    roles,         \* AuthProviderAuth0: useState roles
    fetches,       \* AuthProviderAuth0: role fetches of the effect runs, awaiting the token
    effect,        \* AuthProviderAuth0: the roles effect is "idle", "due" (its dependencies
                   \* changed in the last commit and it has not run yet) or "unmounted"
    settled,       \* history: the role fetch whose token request settled in this step
    form           \* the mounted form component of part_000

vars == <<env, wrapped, provider, localStorage, token, isLoading, ticks, renderNow,
          ctx, hash, pending, lastOp, getResult, sdk, roles, fetches, effect, settled, form>>

(***************************** bounds **************************************)
MaxTicks == 6      \* the clock stops after this many half seconds
MaxPending == 2    \* loginWithCredentials calls in flight at once
MaxFetches == 2    \* Auth0 role fetches in flight at once
MaxRuns == 2       \* handler runs of one form in flight at once

(************************** JavaScript values ******************************)
Null == <<>>
Undefined == "<undefined>"

JNull == [type |-> "null"]
JNum(n) == [type |-> "number", num |-> n]
JStr(s) == [type |-> "string", str |-> s]
JArr(a) == [type |-> "array", items |-> a]
JObj(o) == [type |-> "object", fields |-> o]
JBool(b) == [type |-> "boolean", bool |-> b]

\* JavaScript truthiness of an environment string
Truthy(s) == s # Undefined /\ s # ""

\* payload?.key : the field's value, or Undefined's JSON counterpart
Absent == [type |-> "undefined"]

Field(payload, key) ==
    IF payload.type = "object" /\ key \in DOMAIN payload.fields
    THEN payload.fields[key]
    ELSE Absent

\* JavaScript truthiness of a JSON value (numbers and absent values are what the code tests)
JTruthy(v) ==
    CASE v.type = "undefined" -> FALSE
      [] v.type = "null" -> FALSE
      [] v.type = "number" -> v.num # 0
      [] v.type = "string" -> v.str # ""
      [] v.type = "boolean" -> v.bool
      [] OTHER -> TRUE

(*************************** token material ********************************)
\* JSON texts a token payload may carry, and what JSON.parse makes of them
TextAdminNoExp == "{\"sub\":\"dj\",\"roles\":[\"ADMIN\"]}"
TextExpZero == "{\"sub\":\"old\",\"exp\":0,\"groups\":[\"Role_Admin\"]}"
TextExpTwo == "{\"sub\":\"eve\",\"exp\":2,\"roles\":[\"user\",7],\"groups\":[\"ROLES_ADMIN\"]}"
TextExpThree == "{\"sub\":\"bob\",\"exp\":3,\"roles\":\"admin\",\"permissions\":[\"admin\"]}"

JSONparse(text) ==
    CASE text = TextAdminNoExp ->
            [ok |-> TRUE, value |-> JObj([sub |-> JStr("dj"),
                                          roles |-> JArr(<<JStr("ADMIN")>>)])]
      [] text = TextExpZero ->
            [ok |-> TRUE, value |-> JObj([sub |-> JStr("old"), exp |-> JNum(0),
                                          groups |-> JArr(<<JStr("Role_Admin")>>)])]
      [] text = TextExpTwo ->
            [ok |-> TRUE, value |-> JObj([sub |-> JStr("eve"), exp |-> JNum(2),
                                          roles |-> JArr(<<JStr("user"), JNum(7)>>),
                                          groups |-> JArr(<<JStr("ROLES_ADMIN")>>)])]
      [] text = TextExpThree ->
            [ok |-> TRUE, value |-> JObj([sub |-> JStr("bob"), exp |-> JNum(3),
                                          roles |-> JStr("admin"),
                                          permissions |-> JArr(<<JStr("admin")>>)])]
      [] text = "null" -> [ok |-> TRUE, value |-> JNull]
      [] text = "{}" -> [ok |-> TRUE, value |-> JObj(<<>>)]
      [] text = "{\"blocked\":true}" -> [ok |-> TRUE, value |-> JObj([blocked |-> JBool(TRUE)])]
      [] OTHER -> [ok |-> FALSE, value |-> JNull]      \* SyntaxError

\* atob on the padded base64 text of a chunk
atob(chunk) ==
    CASE chunk = "eyJzdWIiOiJkaiIsInJvbGVzIjpbIkFETUlOIl19" ->
            [ok |-> TRUE, text |-> TextAdminNoExp]
      [] chunk = "eyJzdWIiOiJvbGQiLCJleHAiOjAsImdyb3VwcyI6WyJSb2xlX0FkbWluIl19" ->
            [ok |-> TRUE, text |-> TextExpZero]
      [] chunk = "eyJzdWIiOiJldmUiLCJleHAiOjIsInJvbGVzIjpbInVzZXIiLDddLCJncm91cHMiOlsiUk9MRVNfQURNSU4iXX0" ->
            [ok |-> TRUE, text |-> TextExpTwo]
      [] chunk = "eyJzdWIiOiJib2IiLCJleHAiOjMsInJvbGVzIjoiYWRtaW4iLCJwZXJtaXNzaW9ucyI6WyJhZG1pbiJdfQ" ->
            [ok |-> TRUE, text |-> TextExpThree]
      [] chunk = "bm90IGpzb24" -> [ok |-> TRUE, text |-> "not json"]
      [] chunk = "bnVsbA" -> [ok |-> TRUE, text |-> "null"]
      [] OTHER -> [ok |-> FALSE, text |-> ""]          \* InvalidCharacterError

TokOpaque == <<"opaque-session-id">>
TokBadJson == <<"hdr", ".", "bm90IGpzb24", ".", "sig">>
TokAdminNoExp == <<"hdr", ".", "eyJzdWIiOiJkaiIsInJvbGVzIjpbIkFETUlOIl19", ".", "sig">>
TokExpZero ==
    <<"hdr", ".", "eyJzdWIiOiJvbGQiLCJleHAiOjAsImdyb3VwcyI6WyJSb2xlX0FkbWluIl19", ".", "sig">>
TokExpTwo ==
    <<"hdr", ".",
      "eyJzdWIiOiJldmUiLCJleHAiOjIsInJvbGVzIjpbInVzZXIiLDddLCJncm91cHMiOlsiUk9MRVNfQURNSU4iXX0",
      ".", "sig">>
TokExpThree ==
    <<"hdr", ".",
      "eyJzdWIiOiJib2IiLCJleHAiOjMsInJvbGVzIjoiYWRtaW4iLCJwZXJtaXNzaW9ucyI6WyJhZG1pbiJdfQ",
      ".", "sig">>

\* the token strings the backend may issue or local storage may hold; a token
\* is a non-empty string (AuthService.login resolves with the bearer token)
Tokens == {TokOpaque, TokBadJson, TokAdminNoExp, TokExpZero, TokExpTwo, TokExpThree}


(********************* AuthContext.tsx: pure functions *********************)
\* token.split('.') on a token given as chunks and dots: one part more than
\* there are dots, each the chunk between two neighbouring dots, or ""
split(tok) ==
    LET dots == {i \in 1..Len(tok) : tok[i] = "."}
        DotAt(k) == IF k = 0 THEN 0
                    ELSE IF k > Cardinality(dots) THEN Len(tok) + 1
                    ELSE CHOOSE i \in dots : Cardinality({j \in dots : j < i}) = k - 1
    IN [k \in 1..(Cardinality(dots) + 1) |->
            IF DotAt(k) - DotAt(k - 1) = 2 THEN tok[DotAt(k - 1) + 1] ELSE ""]

\* The chunks used here hold neither '-' nor '_', and atob is keyed by the
\* unpadded text, so the two replaces and padEnd leave the chunk as it is.
decodeBase64Url(value) == atob(value)

\* JNull stands for the null the function returns
decodeJwtPayload(tok) ==
    LET parts == split(tok) IN
    IF Len(parts) # 3 THEN JNull
    ELSE LET json == decodeBase64Url(parts[2]) IN
         IF ~json.ok THEN JNull
         ELSE LET payload == JSONparse(json.text) IN
              IF ~payload.ok THEN JNull ELSE payload.value

\* decodeJwtPayload tabulated over the token material (and null, which
\* split makes a single part)
PayloadOf == [tok \in Tokens \cup {Null} |-> decodeJwtPayload(tok)]

\* Date.now(), in milliseconds
DateNow == ticks * 500

\* variant: a token is still valid in the second of its expiry
isTokenExpiredLt(tok, nowMs) ==
    LET payload == PayloadOf[tok]
        exp == Field(payload, "exp") IN
    IF ~JTruthy(exp) THEN FALSE
    ELSE exp.num < nowMs \div 1000

isTokenExpired(tok, nowMs) ==
    LET payload == PayloadOf[tok]
        exp == Field(payload, "exp") IN
    IF ~JTruthy(exp) THEN FALSE
    ELSE LET nowSeconds == nowMs \div 1000 IN
         exp.num <= nowSeconds

IsJString(v) == v.type = "string"

ArrayOrEmpty(v) == IF v.type = "array" THEN v.items ELSE <<>>

extractRoles(payload) ==
    IF ~JTruthy(payload) THEN <<>>
    ELSE LET directRoles == ArrayOrEmpty(Field(payload, "roles"))
             groupRoles == ArrayOrEmpty(Field(payload, "groups"))
             strings == SelectSeq(directRoles \o groupRoles, IsJString)
         IN [i \in 1..Len(strings) |-> strings[i].str]

\* String.prototype.toLowerCase on the role strings of the token material
toLowerCase(s) ==
    CASE s = "ADMIN" -> "admin"
      [] s = "Role_Admin" -> "role_admin"
      [] s = "ROLES_ADMIN" -> "roles_admin"
      [] OTHER -> s

\* variant: the client id is not looked at
isAuth0EnabledDomainOnly(e) == Truthy(e.domain)

isAuth0Enabled(e) == Truthy(e.domain) /\ Truthy(e.clientId)

\* variant: the isAuthenticated guard of line 72 is missing
computeIsAdminAnyone(roleList, isAuthenticated) ==
    \E i \in 1..Len(roleList) :
        LET normalized == toLowerCase(roleList[i]) IN
        normalized = "admin" \/ normalized = "role_admin" \/ normalized = "roles_admin"

computeIsAdmin(roleList, isAuthenticated) ==
    IF ~isAuthenticated THEN FALSE
    ELSE \E i \in 1..Len(roleList) :
            LET normalized == toLowerCase(roleList[i]) IN
            normalized = "admin" \/ normalized = "role_admin" \/ normalized = "roles_admin"


(************************ AuthContext.tsx: rendering ***********************)
\* AuthProviderLocal, lines 121-125: what a render computes from the token state
RenderLocal(tok, nowMs) ==
    LET payload == IF tok # Null THEN PayloadOf[tok] ELSE JNull
        roleList == extractRoles(payload)
        isAuthenticated == tok # Null /\ ~isTokenExpired(tok, nowMs)
    IN [isAuthenticated |-> isAuthenticated,
        roles |-> roleList,
        isAdmin |-> computeIsAdmin(roleList, isAuthenticated)]

\* AuthProviderAuth0, line 223: what a render computes from the SDK and the roles state
RenderAuth0(isAuthenticated, roleList) ==
    [isAuthenticated |-> isAuthenticated,
     roles |-> roleList,
     isAdmin |-> computeIsAdmin(roleList, isAuthenticated)]

NoCall == [kind |-> "none", value |-> Null]
NoOp == [kind |-> "none", done |-> TRUE, ok |-> FALSE, result |-> Null]
NoForm == [kind |-> "none"]
NoSettle == [kind |-> "none", cancelled |-> FALSE, latest |-> FALSE, token |-> Null]

bootVars == <<env, wrapped, provider>>
localVars == <<localStorage, token, pending, lastOp, hash>>
auth0Vars == <<sdk, roles, fetches, effect, settled>>

(******************************* start *************************************)
EnvDomains == {"", "tenant.auth0.com"}
EnvClientIds == {Undefined, "client-id"}

\* the state when the script of index.tsx starts: a configuration, whatever an
\* earlier visit left in local storage, and the time
InitAuth(envs, stored, times) ==
    /\ env \in envs
    /\ wrapped = "none"
    /\ provider = "none"
    /\ localStorage \in stored
    /\ token = Null
    /\ isLoading = TRUE
    /\ ticks \in times
    /\ renderNow = 0
    /\ ctx = RenderLocal(Null, 0)
    /\ hash = "#/"
    /\ pending = <<>>
    /\ lastOp = NoOp
    /\ getResult = NoCall
    /\ sdk = [isAuthenticated |-> FALSE]
    /\ roles = <<>>
    /\ fetches = <<>>
    /\ effect = "idle"
    /\ settled = NoSettle

Init ==
    /\ InitAuth([domain : EnvDomains, clientId : EnvClientIds], Tokens \cup {Null}, {2})
    /\ form = NoForm

\* index.tsx line 32: the condition under which root.render wraps App in Auth0Provider
wrapsInAuth0Provider(e) == Truthy(e.domain) /\ Truthy(e.clientId)

\* index.tsx root.render (lines 31-47) and the first render of AuthProvider
\* (AuthContext.tsx lines 256-261).  In Auth0 mode the roles effect runs
\* with isAuthenticated false: setRoles([]) and no cleanup.
RootRender ==
    /\ provider = "none"
    /\ wrapped' = IF wrapsInAuth0Provider(env) THEN "yes" ELSE "no"
    /\ provider' = IF isAuth0Enabled(env) THEN "Auth0" ELSE "Local"
    /\ renderNow' = DateNow \div 1000
    /\ ctx' = IF isAuth0Enabled(env) THEN RenderAuth0(sdk.isAuthenticated, <<>>)
                                     ELSE RenderLocal(token, DateNow)
    /\ roles' = <<>>
    /\ getResult' = NoCall
    /\ UNCHANGED <<env, localVars, isLoading, ticks, sdk, fetches, effect, settled, form>>

\* Time passes; nothing re-renders.  Only AuthProviderLocal reads the clock,
\* so the clock is not followed once the Auth0 provider is in use.
Tick ==
    /\ provider # "Auth0"
    /\ ticks < MaxTicks
    /\ ticks' = ticks + 1
    /\ getResult' = NoCall
    /\ UNCHANGED <<bootVars, localVars, isLoading, renderNow, ctx, auth0Vars, form>>

(************************** AuthProviderLocal ******************************)
\* the state a render of AuthProviderLocal leaves behind
RenderedLocal(tok) ==
    /\ renderNow' = DateNow \div 1000
    /\ ctx' = RenderLocal(tok, DateNow)

\* React re-renders the provider although its state did not change (a parent rendered)
Rerender ==
    /\ provider = "Local"
    /\ RenderedLocal(token)
    /\ getResult' = NoCall
    /\ UNCHANGED <<bootVars, localVars, isLoading, ticks, auth0Vars, form>>

\* variant: the stored token is adopted without the expiry check
mountEffectAdoptAll(stored, nowMs) ==
    [token |-> stored, localStorage |-> stored]

\* lines 83-91: the token state and the stored item the mount effect leaves
mountEffect(stored, nowMs) ==
    IF stored # Null /\ ~isTokenExpired(stored, nowMs)
    THEN [token |-> stored, localStorage |-> stored]
    ELSE IF stored # Null
    THEN [token |-> Null, localStorage |-> Null]
    ELSE [token |-> Null, localStorage |-> stored]

MountEffect ==
    /\ provider = "Local"
    /\ isLoading
    /\ LET m == mountEffect(localStorage, DateNow) IN
        /\ token' = m.token
        /\ localStorage' = m.localStorage
        /\ RenderedLocal(m.token)
    /\ isLoading' = FALSE
    /\ lastOp' = [kind |-> "mount", done |-> TRUE, ok |-> TRUE, result |-> localStorage]
    /\ getResult' = NoCall
    /\ UNCHANGED <<bootVars, ticks, pending, hash, auth0Vars, form>>

\* The consumers of the context act once the mount effect has run: React
\* flushes passive effects before it handles the next user event.
LocalReady == provider = "Local" /\ ~isLoading

\* lines 93-96
logout == [localStorage |-> Null, token |-> Null]

Logout ==
    /\ LocalReady
    /\ localStorage' = logout.localStorage
    /\ token' = logout.token
    /\ RenderedLocal(logout.token)
    /\ lastOp' = [kind |-> "logout", done |-> TRUE, ok |-> TRUE, result |-> Null]
    /\ getResult' = NoCall
    /\ UNCHANGED <<bootVars, isLoading, ticks, pending, hash, auth0Vars, form>>

\* lines 98-100 and 66-69
Login ==
    /\ LocalReady
    /\ hash' = "#/login"
    /\ getResult' = NoCall
    /\ UNCHANGED <<bootVars, localStorage, token, pending, lastOp, isLoading, ticks,
                   renderNow, ctx, auth0Vars, form>>

\* line 103: loginWithCredentials is called and awaits AuthService.login
LoginIssue ==
    /\ LocalReady
    /\ Len(pending) < MaxPending
    /\ pending' = Append([i \in 1..Len(pending) |-> [last |-> FALSE]], [last |-> TRUE])
    /\ lastOp' = [kind |-> "login", done |-> FALSE, ok |-> FALSE, result |-> Null]
    /\ getResult' = NoCall
    /\ UNCHANGED <<bootVars, localStorage, token, hash, isLoading, ticks,
                   renderNow, ctx, auth0Vars, form>>

Remove(seq, i) == [j \in 1..(Len(seq) - 1) |-> IF j < i THEN seq[j] ELSE seq[j + 1]]

\* variant: the new token is kept in memory but not stored
loginResolvedMemoryOnly(accessToken) == [localStorage |-> localStorage, token |-> accessToken]

\* lines 104-105: the stored item and the token state after AuthService.login resolved
loginResolved(accessToken) == [localStorage |-> accessToken, token |-> accessToken]

LoginResolve ==
    /\ provider = "Local"
    /\ \E i \in 1..Len(pending), accessToken \in Tokens :
        /\ localStorage' = loginResolved(accessToken).localStorage
        /\ token' = loginResolved(accessToken).token
        /\ RenderedLocal(loginResolved(accessToken).token)
        /\ pending' = Remove(pending, i)
        /\ lastOp' = IF pending[i].last
                     THEN [kind |-> "login", done |-> TRUE, ok |-> TRUE, result |-> accessToken]
                     ELSE lastOp
    /\ getResult' = NoCall
    /\ UNCHANGED <<bootVars, hash, isLoading, ticks, auth0Vars, form>>

\* line 103: AuthService.login rejected; the call throws before it writes anything
LoginReject ==
    /\ provider = "Local"
    /\ \E i \in 1..Len(pending) :
        /\ pending' = Remove(pending, i)
        /\ lastOp' = IF pending[i].last
                     THEN [kind |-> "login", done |-> TRUE, ok |-> FALSE, result |-> Null]
                     ELSE lastOp
    /\ getResult' = NoCall
    /\ UNCHANGED <<bootVars, localStorage, token, hash, isLoading, ticks,
                   renderNow, ctx, auth0Vars, form>>

\* lines 108-110: AuthService.register, resolved or rejected, writes nothing
Signup ==
    /\ LocalReady
    /\ getResult' = NoCall
    /\ UNCHANGED <<bootVars, localVars, isLoading, ticks, renderNow, ctx, auth0Vars, form>>

\* variant: an expired token is reported but not removed
getAccessTokenNoLogout(tok, nowMs) ==
    IF tok = Null THEN [kind |-> "Not authenticated", value |-> Null, logout |-> FALSE]
    ELSE IF isTokenExpired(tok, nowMs)
    THEN [kind |-> "Session expired", value |-> Null, logout |-> FALSE]
    ELSE [kind |-> "token", value |-> tok, logout |-> FALSE]

\* lines 112-119: the outcome of getAccessToken and whether it called logout()
getAccessToken(tok, nowMs) ==
    IF tok = Null THEN [kind |-> "Not authenticated", value |-> Null, logout |-> FALSE]
    ELSE IF isTokenExpired(tok, nowMs)
    THEN [kind |-> "Session expired", value |-> Null, logout |-> TRUE]
    ELSE [kind |-> "token", value |-> tok, logout |-> FALSE]

\* the synchronous part of a getAccessToken call in local mode, with result r
CalledGetAccessToken(r) ==
    /\ getResult' = [kind |-> r.kind, value |-> r.value]
    /\ IF r.logout
       THEN /\ localStorage' = logout.localStorage
            /\ token' = logout.token
            /\ RenderedLocal(logout.token)
            /\ lastOp' = NoOp
       ELSE UNCHANGED <<localStorage, token, renderNow, ctx, lastOp>>

\* a consumer of the context calls getAccessToken
CallGetAccessToken ==
    /\ LocalReady
    /\ CalledGetAccessToken(getAccessToken(token, DateNow))
    /\ UNCHANGED <<bootVars, pending, hash, isLoading, ticks, auth0Vars, form>>


(************************** AuthProviderAuth0 ******************************)
\* A fetch is [cancelled, latest]: cancelled is the flag of the effect run that
\* requested it (line 200); latest is history, true while that run is the most
\* recent run of the effect.

\* lines 218-220: the cleanup of the previous effect run sets its cancelled flag
Cancelled(fs) == [i \in 1..Len(fs) |-> [fs[i] EXCEPT !.cancelled = TRUE]]

\* a new run of the effect: the fetches in flight belong to older runs
Older(fs) == [i \in 1..Len(fs) |-> [fs[i] EXCEPT !.latest = FALSE]]

\* lines 199-221: the roles effect runs after a render in which isAuthenticated
\* or getAccessToken changed; the roles state and the fetches it leaves
rolesEffect(isAuthenticated, roleList, fs) ==
    IF ~isAuthenticated
    THEN [roles |-> <<>>, fetches |-> Older(Cancelled(fs))]
    ELSE [roles |-> roleList,
          fetches |-> Append(Older(Cancelled(fs)), [cancelled |-> FALSE, latest |-> TRUE])]

\* React runs an effect that is due before it renders again
flushPassiveEffects(due, isAuthenticated, roleList, fs) ==
    IF due THEN rolesEffect(isAuthenticated, roleList, fs)
    ELSE [roles |-> roleList, fetches |-> fs]

\* useAuth0() reports a new isAuthenticated, or that it finished loading
SdkUpdate ==
    /\ provider = "Auth0"
    /\ effect # "unmounted"
    /\ \E auth \in BOOLEAN :
        /\ isLoading \/ auth # sdk.isAuthenticated
        /\ sdk' = [isAuthenticated |-> auth]
        /\ effect' = IF auth # sdk.isAuthenticated THEN "due" ELSE "idle"
        /\ LET e == flushPassiveEffects(effect = "due", sdk.isAuthenticated, roles, fetches) IN
            /\ Len(e.fetches) <= MaxFetches
            /\ roles' = e.roles
            /\ fetches' = e.fetches
            /\ ctx' = RenderAuth0(auth, e.roles)
    /\ isLoading' = FALSE
    /\ settled' = NoSettle
    /\ getResult' = NoCall
    /\ UNCHANGED <<bootVars, localVars, ticks, renderNow, form>>

\* useAuth0() hands out a new getAccessTokenSilently: getAccessToken changes (line 195)
SdkNewGetToken ==
    /\ provider = "Auth0"
    /\ effect # "unmounted"
    /\ LET e == flushPassiveEffects(effect = "due", sdk.isAuthenticated, roles, fetches) IN
        /\ Len(e.fetches) <= MaxFetches
        /\ roles' = e.roles
        /\ fetches' = e.fetches
        /\ ctx' = RenderAuth0(sdk.isAuthenticated, e.roles)
    /\ effect' = "due"
    /\ settled' = NoSettle
    /\ getResult' = NoCall
    /\ UNCHANGED <<bootVars, localVars, isLoading, ticks, renderNow, sdk, form>>

\* lines 199-221: React runs the effect that is due
RunEffect ==
    /\ provider = "Auth0"
    /\ effect = "due"
    /\ LET e == rolesEffect(sdk.isAuthenticated, roles, fetches) IN
        /\ Len(e.fetches) <= MaxFetches
        /\ roles' = e.roles
        /\ fetches' = e.fetches
        /\ ctx' = RenderAuth0(sdk.isAuthenticated, e.roles)
    /\ effect' = "idle"
    /\ settled' = NoSettle
    /\ getResult' = NoCall
    /\ UNCHANGED <<bootVars, localVars, isLoading, ticks, renderNow, sdk, form>>

\* the provider unmounts: an effect that is due runs, then the cleanup of the
\* last effect run (lines 218-220); the state of the component is kept as it was
Unmount ==
    /\ provider = "Auth0"
    /\ effect # "unmounted"
    /\ LET e == flushPassiveEffects(effect = "due", sdk.isAuthenticated, roles, fetches) IN
        /\ Len(e.fetches) <= MaxFetches
        /\ fetches' = Cancelled(e.fetches)
    /\ effect' = "unmounted"
    /\ settled' = NoSettle
    /\ getResult' = NoCall
    /\ UNCHANGED <<bootVars, localVars, isLoading, ticks, renderNow, ctx, sdk, roles, form>>

\* variant: the resolved token is used without looking at the cancelled flag
fetchResolvedUnguarded(f, accessToken, roleList) ==
    extractRoles(PayloadOf[accessToken])

\* lines 208-211: the token of a role fetch arrives
fetchResolved(f, accessToken, roleList) ==
    IF f.cancelled THEN roleList
    ELSE extractRoles(PayloadOf[accessToken])

\* lines 212-215: the token request of a role fetch fails
fetchRejected(f, roleList) == IF f.cancelled THEN roleList ELSE <<>>

\* the token request of fetch i settled and left the role list written; a fetch
\* that was not cancelled called setRoles, and React runs an effect that is
\* due before it renders the new role list
FetchSettled(i, kind, accessToken, written) ==
    LET f == fetches[i]
        flush == ~f.cancelled /\ effect = "due"
        e == flushPassiveEffects(flush, sdk.isAuthenticated, written, Remove(fetches, i)) IN
    /\ roles' = e.roles
    /\ fetches' = e.fetches
    /\ effect' = IF flush THEN "idle" ELSE effect
    /\ ctx' = IF f.cancelled THEN ctx ELSE RenderAuth0(sdk.isAuthenticated, e.roles)
    /\ settled' = [kind |-> kind, cancelled |-> f.cancelled, latest |-> f.latest,
                   token |-> accessToken]
    /\ getResult' = NoCall
    /\ UNCHANGED <<bootVars, localVars, isLoading, ticks, renderNow, sdk, form>>

FetchResolve ==
    /\ provider = "Auth0"
    /\ \E i \in 1..Len(fetches), accessToken \in Tokens :
        FetchSettled(i, "resolved", accessToken, fetchResolved(fetches[i], accessToken, roles))

FetchReject ==
    /\ provider = "Auth0"
    /\ \E i \in 1..Len(fetches) :
        FetchSettled(i, "rejected", Null, fetchRejected(fetches[i], roles))

(************************** the authentication context *********************)
Next ==
    \/ RootRender
    \/ Tick
    \/ Rerender
    \/ MountEffect
    \/ Logout
    \/ Login
    \/ LoginIssue
    \/ LoginResolve
    \/ LoginReject
    \/ Signup
    \/ CallGetAccessToken
    \/ SdkUpdate
    \/ SdkNewGetToken
    \/ RunEffect
    \/ Unmount
    \/ FetchResolve
    \/ FetchReject

Spec == Init /\ [][Next]_vars


\* The mount effect is scheduled by React after the first commit and runs;
\* root.render is called unconditionally when the script loads.
FairSpec == Spec /\ WF_vars(RootRender) /\ WF_vars(MountEffect)

(**************************** part_000: the forms **************************)
\* ---- values of the form inputs ----
\* FormData entries are <<name, value>> pairs in document order; a File is
\* written as the string of its name, an empty file input as "".
EventBlank ==
    << <<"title", "">>, <<"venueName", "">>, <<"location", "">>, <<"startDate", "">>,
       <<"ticketLink", "">>, <<"LocationLatitude", "">>, <<"LocationLongitude", "">>,
       <<"status", "UPCOMING">>, <<"imageUrl", "">> >>
EventFilledA ==
    << <<"title", "Launch">>, <<"venueName", "K1">>, <<"location", "Nairobi, Kenya">>,
       <<"startDate", "2026-01-01">>, <<"ticketLink", "https://t.example/1">>,
       <<"LocationLatitude", "-1.29">>, <<"LocationLongitude", "36.82">>,
       <<"status", "UPCOMING">>, <<"imageUrl", "cover.png">> >>
EventFilledB ==
    << <<"title", " Launch ">>, <<"venueName", "K1">>, <<"location", "Nairobi, Kenya">>,
       <<"startDate", "2026-01-01">>, <<"ticketLink", "https://t.example/1">>,
       <<"LocationLatitude", "0">>, <<"LocationLongitude", "36.82">>,
       <<"status", "CANCELLED">>, <<"imageUrl", "poster.jpg">> >>
MerchBlank ==
    << <<"merchandiseName", "">>, <<"merchandisePrice", "">>,
       <<"merchandiseDetails", "">>, <<"merchandiseImg", "">> >>
MerchFilledA ==
    << <<"merchandiseName", "Cap">>, <<"merchandisePrice", "KSH 2500">>,
       <<"merchandiseDetails", "Black cap">>, <<"merchandiseImg", "cap.png">> >>
MerchFilledB ==
    << <<"merchandiseName", "Tee">>, <<"merchandisePrice", " 900 ">>,
       <<"merchandiseDetails", "White tee">>, <<"merchandiseImg", "tee.png">> >>
TrackBlank == << <<"title", "">>, <<"source", "SPOTIFY">>, <<"link", "">> >>
TrackFilledA ==
    << <<"title", "Intro">>, <<"source", "SPOTIFY">>, <<"link", "https://open.example/1">> >>
TrackFilledB ==
    << <<"title", "Outro">>, <<"source", "YOUTUBE">>, <<"link", "https://yt.example/2 ">> >>

CreateKinds == {"CreateEventForm", "CreateMerchForm", "CreateTrackForm"}
Kinds == CreateKinds \cup {"ManageUsersForm"}

\* the inputs of a freshly rendered (or reset) form
Blank(kind) ==
    CASE kind = "CreateEventForm" -> EventBlank
      [] kind = "CreateMerchForm" -> MerchBlank
      [] kind = "CreateTrackForm" -> TrackBlank
      [] OTHER -> <<>>

\* what the user may have typed into it
Filled(kind) ==
    CASE kind = "CreateEventForm" -> {EventFilledA, EventFilledB}
      [] kind = "CreateMerchForm" -> {MerchFilledA, MerchFilledB}
      [] kind = "CreateTrackForm" -> {TrackFilledA, TrackFilledB}
      [] OTHER -> {}

\* the inputs carrying the required attribute (lines 40-58, 102-107, 150-157)
Required(kind) ==
    CASE kind = "CreateEventForm" ->
            {"title", "venueName", "location", "startDate", "ticketLink",
             "LocationLatitude", "LocationLongitude", "imageUrl"}
      [] kind = "CreateMerchForm" ->
            {"merchandiseName", "merchandisePrice", "merchandiseDetails", "merchandiseImg"}
      [] kind = "CreateTrackForm" -> {"title", "link"}
      [] OTHER -> {}

\* the browser's constraint validation, which runs before the submit event
Valid(kind, entries) ==
    \A i \in 1..Len(entries) : entries[i][1] \in Required(kind) => entries[i][2] # ""

\* Object.fromEntries(formData.entries()): the last entry of a name wins
ObjectFromEntries(entries) ==
    [name \in {entries[i][1] : i \in 1..Len(entries)} |->
        LET last == CHOOSE i \in 1..Len(entries) :
                        /\ entries[i][1] = name
                        /\ \A j \in (i + 1)..Len(entries) : entries[j][1] # name
        IN entries[last][2]]

\* formData.get(name): the first entry of that name, "" standing for none
FormDataGet(entries, name) ==
    IF \E i \in 1..Len(entries) : entries[i][1] = name
    THEN entries[CHOOSE i \in 1..Len(entries) :
                    /\ entries[i][1] = name
                    /\ \A j \in 1..(i - 1) : entries[j][1] # name][2]
    ELSE ""

\* the name of the file input of a form (lines 18 and 82); CreateTrackForm has none
FileField(kind) ==
    CASE kind = "CreateEventForm" -> "imageUrl"
      [] kind = "CreateMerchForm" -> "merchandiseImg"
      [] OTHER -> ""

\* the e-mail box: strings as sequences of characters
Emails == { <<>>, <<" ">>, <<" ", "a", "@", "b", " ">> }

\* variant: the e-mail is passed on as typed
trimIdentity(s) == s

\* String.prototype.trim
trim(s) ==
    LET keep == {i \in 1..Len(s) : s[i] # " "} IN
    IF keep = {} THEN <<>>
    ELSE SubSeq(s, CHOOSE i \in keep : \A j \in keep : i <= j,
                   CHOOSE i \in keep : \A j \in keep : j <= i)

\* the PATCH JSON textarea
PatchTexts == {"", "{}", "{\"blocked\":true}", "{oops"}

\* what the user endpoints may answer
UserAuth0 == JObj([user_id |-> JStr("auth0|1"), email |-> JStr("a@b")])
UserDbId == JObj([user_id |-> JNull, id |-> JNum(7)])
UserEmptyId == JObj([user_id |-> JStr(""), id |-> JStr("9")])
ApiUsers == {UserAuth0, UserDbId, UserEmptyId, JNull}

\* String(x) for the id values above
String(v) ==
    CASE v.type = "string" -> v.str
      [] v.type = "number" -> IF v.num = 7 THEN "7" ELSE "0"
      [] OTHER -> "null"

Nullish(v) == v.type \in {"null", "undefined"}

\* lines 205 and 226: String(user.user_id ?? user.id ?? '')
userId(user) ==
    LET a == Field(user, "user_id")
        b == Field(user, "id") IN
    String(IF ~Nullish(a) THEN a ELSE IF ~Nullish(b) THEN b ELSE JStr(""))

\* ---- component state ----
NoApi == [call |-> "none", data |-> <<>>, file |-> "", email |-> <<>>, id |-> "",
          updates |-> JNull, token |-> Null]
NoRun == [op |-> "none", gotToken |-> FALSE, parsed |-> FALSE, hasId |-> FALSE,
          called |-> FALSE, apiOk |-> FALSE, result |-> JNull]
PendingGet == [kind |-> "pending", value |-> Null]

\* useState initial values (lines 8-9, 72-73, 121-122, 171-175); runs holds the
\* handler runs in flight, done the outcome of the run that finished last, early
\* the handler whose call, the latest thing done to the form, returned at its
\* first line
InitialForm(kind) ==
    [kind |-> kind, loading |-> FALSE, msg |-> "null", inputs |-> Blank(kind),
     email |-> <<>>, user |-> JNull, updatesJson |-> "{}", runs |-> <<>>, done |-> NoRun,
     early |-> "none"]

InitForms ==
    /\ InitAuth({[domain |-> "", clientId |-> Undefined],
                 [domain |-> "tenant.auth0.com", clientId |-> "client-id"]},
                {Null, TokExpTwo}, {2})
    /\ form \in {InitialForm(kind) : kind \in Kinds}

\* the forms are on screen once the provider has rendered and, in local mode,
\* its mount effect has run
FormsReady == provider = "Auth0" \/ LocalReady

\* variant: the submit button stays enabled while loading
submitNeverDisabled(f) == FALSE

\* lines 63, 112, 161: disabled={loading}
submitDisabled(f) == f.loading

\* line 250
searchDisabled(f) == f.loading \/ Len(trim(f.email)) = 0

\* lines 258 and 276
userButtonDisabled(f) == f.loading \/ ~JTruthy(f.user)

\* ---- the getAccessToken call of a handler ----
\* In local mode the call runs to its end at once (lines 112-119); in Auth0
\* mode it is getAccessTokenSilently, which settles later (lines 191-195).
GotNow ==
    IF provider = "Local"
    THEN LET r == getAccessToken(token, DateNow) IN [kind |-> r.kind, value |-> r.value]
    ELSE PendingGet

TokenCall ==
    IF provider = "Local"
    THEN CalledGetAccessToken(getAccessToken(token, DateNow))
    ELSE /\ getResult' = NoCall
         /\ UNCHANGED <<localStorage, token, renderNow, ctx, lastOp>>

\* what getAccessTokenSilently may settle with
Auth0Outcomes == {[kind |-> "token", value |-> TokExpThree],
                  [kind |-> "login_required", value |-> Null]}

formFrame == <<bootVars, pending, hash, isLoading, ticks, auth0Vars>>
authFrame == <<bootVars, localVars, isLoading, ticks, renderNow, ctx, auth0Vars>>

NewRun(op) ==
    [op |-> op, pc |-> "token", got |-> GotNow, entered |-> form.inputs,
     email |-> form.email, user |-> form.user, text |-> form.updatesJson,
     updates |-> JNull, api |-> NoApi]

\* setLoading(true); setMsg(null); ... await getAccessToken()
Started(run) ==
    /\ form' = [form EXCEPT !.loading = TRUE, !.msg = "null",
                            !.runs = Append(@, run), !.done = NoRun, !.early = "none"]
    /\ TokenCall
    /\ UNCHANGED formFrame

\* ---- the user edits the inputs ----
EditInputs ==
    /\ form.kind \in CreateKinds
    /\ FormsReady
    /\ \E v \in Filled(form.kind) : form' = [form EXCEPT !.inputs = v]
    /\ getResult' = NoCall
    /\ UNCHANGED authFrame

\* line 244
SetEmail ==
    /\ form.kind = "ManageUsersForm"
    /\ FormsReady
    /\ \E v \in Emails : form' = [form EXCEPT !.email = v, !.early = "none"]
    /\ getResult' = NoCall
    /\ UNCHANGED authFrame

\* line 270
SetUpdatesJson ==
    /\ form.kind = "ManageUsersForm"
    /\ FormsReady
    /\ \E v \in PatchTexts : form' = [form EXCEPT !.updatesJson = v, !.early = "none"]
    /\ getResult' = NoCall
    /\ UNCHANGED authFrame

\* ---- the handlers, up to their first await ----
\* lines 12-23, 76-85, 125-133
HandleSubmit ==
    /\ form.kind \in CreateKinds
    /\ FormsReady
    /\ ~submitDisabled(form)
    /\ Valid(form.kind, form.inputs)
    /\ Len(form.runs) < MaxRuns
    /\ Started(NewRun("handleSubmit"))

\* lines 180-184
FetchUser ==
    /\ form.kind = "ManageUsersForm"
    /\ FormsReady
    /\ ~searchDisabled(form)
    /\ Len(form.runs) < MaxRuns
    /\ Started(NewRun("fetchUser"))

\* line 203: JSON.parse(updatesJson || '{}')
parseUpdates(updatesJson) == JSONparse(IF updatesJson = "" THEN "{}" ELSE updatesJson)

\* lines 198 and 220: if (!user) return
returnsEarly(user) == ~JTruthy(user)

\* patchUser or deleteUser called while no user is loaded (the disabled
\* attribute of the buttons does not stand in the way of a direct call of the
\* handler): the handler returns at its first line
CallWithoutUser ==
    /\ form.kind = "ManageUsersForm"
    /\ FormsReady
    /\ ~JTruthy(form.user)
    /\ \E op \in {"patchUser", "deleteUser"} :
        IF returnsEarly(form.user)
        THEN /\ form' = [form EXCEPT !.early = op]
             /\ getResult' = NoCall
             /\ UNCHANGED authFrame
        ELSE /\ Len(form.runs) < MaxRuns
             /\ Started(NewRun(op))

\* lines 197-204: a text that does not parse throws before getAccessToken is called
PatchUser ==
    /\ form.kind = "ManageUsersForm"
    /\ FormsReady
    /\ ~userButtonDisabled(form)
    /\ ~returnsEarly(form.user)
    /\ Len(form.runs) < MaxRuns
    /\ LET updates == parseUpdates(form.updatesJson) IN
        IF updates.ok
        THEN Started([NewRun("patchUser") EXCEPT !.updates = updates.value])
        ELSE /\ form' = [form EXCEPT !.loading = FALSE, !.msg = "error", !.early = "none",
                                     !.done = [NoRun EXCEPT !.op = "patchUser"]]
             /\ getResult' = NoCall
             /\ UNCHANGED authFrame

\* lines 219-225
DeleteUser ==
    /\ form.kind = "ManageUsersForm"
    /\ FormsReady
    /\ ~userButtonDisabled(form)
    /\ ~returnsEarly(form.user)
    /\ Len(form.runs) < MaxRuns
    /\ Started(NewRun("deleteUser"))

\* ---- the handlers, after await getAccessToken() ----
\* variant: the request carries the stored item, not the token getAccessToken returned
requestFromStorage(kind, run, tok) ==
    [NoApi EXCEPT !.call = "AdminUserService.getByEmail",
                  !.email = trim(run.email), !.token = localStorage]

\* lines 24, 86, 134, 185, 208, 228: the API call a run makes with the token it got
request(kind, run, tok) ==
    CASE run.op = "handleSubmit" /\ kind = "CreateEventForm" ->
            [NoApi EXCEPT !.call = "EventService.create",
                          !.data = ObjectFromEntries(run.entered),
                          !.file = FormDataGet(run.entered, "imageUrl"),
                          !.token = tok]
      [] run.op = "handleSubmit" /\ kind = "CreateMerchForm" ->
            [NoApi EXCEPT !.call = "MerchandiseService.create",
                          !.data = ObjectFromEntries(run.entered),
                          !.file = FormDataGet(run.entered, "merchandiseImg"),
                          !.token = tok]
      [] run.op = "handleSubmit" /\ kind = "CreateTrackForm" ->
            [NoApi EXCEPT !.call = "TrackService.create",
                          !.data = ObjectFromEntries(run.entered),
                          !.token = tok]
      [] run.op = "fetchUser" ->
            [NoApi EXCEPT !.call = "AdminUserService.getByEmail",
                          !.email = trim(run.email), !.token = tok]
      [] run.op = "patchUser" ->
            [NoApi EXCEPT !.call = "AdminUserService.update",
                          !.id = userId(run.user), !.updates = run.updates, !.token = tok]
      [] run.op = "deleteUser" ->
            [NoApi EXCEPT !.call = "AdminUserService.delete",
                          !.id = userId(run.user), !.token = tok]

\* lines 206 and 227: if (!id) throw new Error('Missing user id')
hasId(run) == run.op \in {"patchUser", "deleteUser"} => userId(run.user) # ""

\* variant: there is no finally block
finishedKeepsLoading(f, i, type, user, inputs, done) ==
    [f EXCEPT !.msg = type, !.runs = Remove(@, i), !.early = "none",
              !.user = user, !.inputs = inputs, !.done = done]

\* the catch or the success branch, then finally: the form once run i has ended
finished(f, i, type, user, inputs, done) ==
    [f EXCEPT !.loading = FALSE, !.msg = type, !.runs = Remove(@, i), !.early = "none",
              !.user = user, !.inputs = inputs, !.done = done]

\* variant: every failed handler clears the loaded user
userAfterFailureClears(f, run) == JNull

\* lines 188-191: only fetchUser clears the loaded user when it fails
userAfterFailure(f, run) == IF run.op = "fetchUser" THEN JNull ELSE f.user

\* lines 25-26, 186-187, 209-210, 229-230
userAfterSuccess(f, run, result) ==
    CASE run.op \in {"fetchUser", "patchUser"} -> result
      [] run.op = "deleteUser" -> JNull
      [] OTHER -> f.user

\* (e.target as HTMLFormElement).reset()
inputsAfterSuccess(f, run) == IF run.op = "handleSubmit" THEN Blank(f.kind) ELSE f.inputs

\* getAccessToken settles for run i: the run goes on to its API call, or ends in catch
TokenSettled ==
    /\ form.kind \in Kinds
    /\ \E i \in 1..Len(form.runs) :
        LET run == form.runs[i] IN
        /\ run.pc = "token"
        /\ \E got \in (IF run.got.kind = "pending" THEN Auth0Outcomes ELSE {run.got}) :
            IF got.kind = "token" /\ hasId(run)
            THEN form' = [form EXCEPT !.early = "none", !.runs[i] =
                            [run EXCEPT !.pc = "api", !.got = got,
                                        !.api = request(form.kind, run, got.value)]]
            ELSE form' = finished(form, i, "error", userAfterFailure(form, run), form.inputs,
                                  [op |-> run.op, gotToken |-> got.kind = "token",
                                   parsed |-> TRUE, hasId |-> hasId(run),
                                   called |-> FALSE, apiOk |-> FALSE, result |-> JNull])
    /\ getResult' = NoCall
    /\ UNCHANGED authFrame

\* the API call of run i settles
ApiSettled ==
    /\ form.kind \in Kinds
    /\ \E i \in 1..Len(form.runs) :
        LET run == form.runs[i]
            done(ok, result) ==
                [op |-> run.op, gotToken |-> TRUE, parsed |-> TRUE, hasId |-> TRUE,
                 called |-> TRUE, apiOk |-> ok, result |-> result] IN
        /\ run.pc = "api"
        /\ \/ \E result \in (IF run.op \in {"fetchUser", "patchUser"} THEN ApiUsers ELSE {JNull}) :
                form' = finished(form, i, "success", userAfterSuccess(form, run, result),
                                 inputsAfterSuccess(form, run), done(TRUE, result))
           \/ form' = finished(form, i, "error", userAfterFailure(form, run), form.inputs,
                               done(FALSE, JNull))
    /\ getResult' = NoCall
    /\ UNCHANGED authFrame

NextForms ==
    \/ RootRender
    \/ MountEffect
    \/ Tick
    \/ EditInputs
    \/ SetEmail
    \/ SetUpdatesJson
    \/ HandleSubmit
    \/ FetchUser
    \/ PatchUser
    \/ DeleteUser
    \/ CallWithoutUser
    \/ TokenSettled
    \/ ApiSettled

SpecForms == InitForms /\ [][NextForms]_vars

\* A token acquisition and an API call each settle.
FairSpecForms == SpecForms /\ WF_vars(TokenSettled) /\ WF_vars(ApiSettled)

(******************** properties of the authentication context *************)
nowSeconds == DateNow \div 1000

\* the token carries a decodable expiry claim that is a non-zero number
HasExpiry(tok) ==
    LET p == PayloadOf[tok] IN
    /\ p.type = "object"
    /\ "exp" \in DOMAIN p.fields
    /\ p.fields.exp.type = "number"
    /\ p.fields.exp.num # 0

\* ... and that expiry is at or before sec
ExpiredAt(tok, sec) == HasExpiry(tok) /\ PayloadOf[tok].fields.exp.num <= sec

\* C1: in local mode getAccessToken returns the held token exactly when one is
\* held and it is not expired; with none held it fails with 'Not authenticated'
\* and changes nothing; with an expired one it fails with 'Session expired' and
\* removes the token from local storage and from memory; and the token state
\* leaves null again only when a pending loginWithCredentials resolves, so
\* every call in between fails with 'Not authenticated'.
C1_GetAccessToken ==
    [][ /\ (provider = "Local" /\ getResult'.kind # "none") =>
            /\ token = Null =>
                /\ getResult' = [kind |-> "Not authenticated", value |-> Null]
                /\ UNCHANGED <<token, localStorage, isLoading, pending, hash, ctx>>
            /\ (token # Null /\ ExpiredAt(token, nowSeconds)) =>
                /\ getResult' = [kind |-> "Session expired", value |-> Null]
                /\ token' = Null
                /\ localStorage' = Null
            /\ (token # Null /\ ~ExpiredAt(token, nowSeconds)) =>
                /\ getResult' = [kind |-> "token", value |-> token]
                /\ UNCHANGED <<token, localStorage, isLoading, pending, hash, ctx>>
        /\ (provider = "Local" /\ ~isLoading /\ token = Null /\ token' # Null) =>
            Len(pending') < Len(pending)
      ]_vars

C1_Witness ==
    /\ provider = "Local"
    /\ getResult.kind = "Session expired"
    /\ token = Null
    /\ localStorage = Null

\* C2 as stated: isAuthenticated is true exactly when a token is held and its
\* expiry lies strictly after now, for every token that can be stored.
C2_Original ==
    provider = "Local" =>
        (ctx.isAuthenticated <=>
            /\ token # Null
            /\ HasExpiry(token)
            /\ PayloadOf[token].fields.exp.num > nowSeconds)

\* C2 amended: the isAuthenticated computed by a render is true exactly when a
\* token is held and it carries no decodable non-zero expiry at or before the
\* whole second of that render.
C2_IsAuthenticated ==
    provider = "Local" =>
        (ctx.isAuthenticated <=> (token # Null /\ ~ExpiredAt(token, renderNow)))

C2_Witness ==
    /\ provider = "Local"
    /\ token = TokExpZero
    /\ ctx.isAuthenticated
    /\ renderNow >= 1

\* C5 as stated: once no loginWithCredentials is pending, the session is the
\* one produced by the user operation issued last: none after a logout, the
\* token of the login after a successful loginWithCredentials.
C5_LastIssuedWins ==
    (provider = "Local" /\ pending = <<>>) =>
        /\ lastOp.kind = "logout" =>
            (token = Null /\ localStorage = Null /\ ~ctx.isAuthenticated)
        /\ (lastOp.kind = "login" /\ lastOp.ok) =>
            (token = lastOp.result /\ localStorage = lastOp.result)

AdminNames == {"admin", "role_admin", "roles_admin"}

\* the string entries of a claim of the token's payload, in order
StringEntries(tok, claim) ==
    LET p == PayloadOf[tok] IN
    IF p.type = "object" /\ claim \in DOMAIN p.fields /\ p.fields[claim].type = "array"
    THEN LET items == p.fields[claim].items
             IsStr(v) == v.type = "string"
             strs == SelectSeq(items, IsStr)
         IN [i \in 1..Len(strs) |-> strs[i].str]
    ELSE <<>>

\* C6: in either mode isAdmin is true exactly when isAuthenticated is true and
\* the role list holds an entry that lower-cased is admin, role_admin or
\* roles_admin; in local mode the role list is the string entries of the roles
\* claim followed by those of the groups claim of the held token.
C6_IsAdmin ==
    provider # "none" =>
        /\ ctx.isAdmin <=>
            /\ ctx.isAuthenticated
            /\ \E i \in 1..Len(ctx.roles) : toLowerCase(ctx.roles[i]) \in AdminNames
        /\ provider = "Local" =>
            ctx.roles = StringEntries(token, "roles") \o StringEntries(token, "groups")
        /\ provider = "Auth0" => ctx.roles = roles /\ ctx.isAuthenticated = sdk.isAuthenticated

C6_Witness ==
    /\ provider = "Local"
    /\ token = TokExpTwo
    /\ ctx.isAuthenticated
    /\ ctx.roles = <<"user", "ROLES_ADMIN">>
    /\ ctx.isAdmin

\* C7: the Auth0 implementation is selected if and only if both the domain and
\* the client id are configured and non-empty, otherwise the local one; and
\* the root is wrapped in Auth0Provider under exactly that condition.
C7_ProviderSwitch ==
    provider # "none" =>
        /\ provider \in {"Auth0", "Local"}
        /\ provider = "Auth0" <=>
            (env.domain \notin {Undefined, ""} /\ env.clientId \notin {Undefined, ""})
        /\ wrapped \in {"yes", "no"}
        /\ wrapped = "yes" <=> provider = "Auth0"

C7_Witness == provider = "Auth0" /\ wrapped = "yes" /\ ~isLoading

\* C8: the mount effect adopts a stored token if and only if it is not
\* expired, removes an expired one without adopting it, and writes nothing
\* when none is stored; isLoading starts true, becomes false, and stays false.
C8_StartUp ==
    /\ [](provider = "none" => isLoading)
    /\ [][ (provider = "Local" /\ isLoading /\ ~isLoading') =>
            /\ (localStorage # Null /\ ~ExpiredAt(localStorage, nowSeconds)) =>
                (token' = localStorage /\ localStorage' = localStorage)
            /\ (localStorage # Null /\ ExpiredAt(localStorage, nowSeconds)) =>
                (token' = Null /\ localStorage' = Null)
            /\ localStorage = Null => (token' = Null /\ localStorage' = Null)
         ]_vars
    /\ (provider = "Local") ~> ~isLoading
    /\ [][ ~isLoading => ~isLoading' ]_vars

C8_Witness ==
    /\ provider = "Local"
    /\ ~isLoading
    /\ lastOp.kind = "mount"
    /\ lastOp.result = TokExpTwo
    /\ token = Null
    /\ localStorage = Null


(************************** properties of the forms ************************)
InFlight(pc) == {i \in 1..Len(form.runs) : form.runs[i].pc = pc}

\* C3: every API call of a form follows a successful getAccessToken of the
\* same handler run and carries the token that call returned; a run whose
\* getAccessToken failed made no API call and left the error message.
C3_TokenBeforeApi ==
    form.kind \in Kinds =>
        /\ \A i \in InFlight("api") :
            /\ form.runs[i].got.kind = "token"
            /\ form.runs[i].api.call # "none"
            /\ form.runs[i].api.token = form.runs[i].got.value
            /\ form.runs[i].api.token \in Tokens
        /\ \A i \in InFlight("token") : form.runs[i].api = NoApi
        /\ (form.done.op # "none" /\ ~form.done.gotToken) =>
            (~form.done.called /\ form.msg = "error")

C3_Witness ==
    /\ form.kind = "ManageUsersForm"
    /\ provider = "Auth0"
    /\ \E i \in InFlight("api") :
        /\ form.runs[i].op = "deleteUser"
        /\ form.runs[i].api.token = TokExpThree

\* the entries as the field values the user entered
SameFields(data, entries) ==
    /\ DOMAIN data = {entries[i][1] : i \in 1..Len(entries)}
    /\ \A i \in 1..Len(entries) : data[entries[i][1]] = entries[i][2]

\* C4 as stated: the argument of each API call equals the entered values; the
\* e-mail passed to getByEmail equals the value of the e-mail input, and the
\* updates passed to update equal the parsed text of the textarea.
C4_Original ==
    form.kind \in Kinds =>
        \A i \in InFlight("api") :
            LET run == form.runs[i] IN
            /\ run.op = "handleSubmit" => SameFields(run.api.data, run.entered)
            /\ run.op = "fetchUser" => run.api.email = run.email
            /\ run.op = "patchUser" =>
                (JSONparse(run.text).ok /\ run.api.updates = JSONparse(run.text).value)

\* t is s without its leading and trailing spaces
IsTrimOf(t, s) ==
    /\ \E a, b \in 0..Len(s) :
        /\ a + Len(t) + b = Len(s)
        /\ \A i \in 1..Len(s) :
            IF i <= a \/ i > a + Len(t) THEN s[i] = " " ELSE s[i] = t[i - a]
    /\ t # <<>> => (t[1] # " " /\ t[Len(t)] # " ")

\* C4 amended: the create forms forward the entered fields unchanged; the
\* e-mail passed to getByEmail is the value of the e-mail input without its
\* leading and trailing whitespace; the updates passed to update are the
\* parsed text of the textarea, an empty textarea being sent as {}.
C4_Forwarded ==
    form.kind \in Kinds =>
        \A i \in InFlight("api") :
            LET run == form.runs[i] IN
            /\ run.op = "handleSubmit" =>
                /\ SameFields(run.api.data, run.entered)
                /\ FileField(form.kind) # "" =>
                    run.api.file = run.api.data[FileField(form.kind)]
            /\ run.op = "fetchUser" => IsTrimOf(run.api.email, run.email)
            /\ run.op = "patchUser" =>
                IF run.text = ""
                THEN run.api.updates = JObj(<<>>)
                ELSE (JSONparse(run.text).ok /\ run.api.updates = JSONparse(run.text).value)

C4_Witness ==
    /\ form.kind = "ManageUsersForm"
    /\ \E i \in InFlight("api") :
        /\ form.runs[i].op = "fetchUser"
        /\ form.runs[i].email = <<" ", "a", "@", "b", " ">>
        /\ form.runs[i].api.email = <<"a", "@", "b">>

\* C9: while a handler run of a form is in flight loading is true and every
\* action button of the form is disabled, so the form has at most one handler
\* run, and at most one API request, in flight.
C9_SingleFlight ==
    form.kind \in Kinds =>
        /\ Len(form.runs) <= 1
        /\ form.loading <=> form.runs # <<>>
        /\ form.loading =>
            /\ submitDisabled(form)
            /\ searchDisabled(form)
            /\ userButtonDisabled(form)

C9_Witness ==
    /\ form.kind = "ManageUsersForm"
    /\ form.loading
    /\ JTruthy(form.user)
    /\ form.email = <<" ", "a", "@", "b", " ">>
    /\ Len(form.runs) = 1
    /\ form.runs[1].pc = "api"

\* C10: a handler run that set loading to true sets it back to false once the
\* token acquisition and the API call have settled; the message is null while
\* the run is in flight, and the run ends with a message that is 'success' if
\* and only if getAccessToken and the API call both succeeded (for patchUser:
\* and the text parsed and the loaded user has a non-empty id), else 'error'.
C10_HandlerOutcome ==
    /\ [](form.kind \in Kinds =>
            /\ form.runs # <<>> => form.msg = "null"
            /\ form.done.op # "none" =>
                /\ ~form.loading
                /\ form.msg \in {"success", "error"}
                /\ form.msg = "success" <=>
                    /\ form.done.gotToken
                    /\ form.done.called
                    /\ form.done.apiOk
                    /\ form.done.parsed
                    /\ form.done.hasId)
    /\ (form.kind \in Kinds /\ form.loading) ~> (form.kind \in Kinds /\ ~form.loading)

C10_Witness ==
    /\ form.kind = "ManageUsersForm"
    /\ form.done.op = "patchUser"
    /\ form.msg = "success"
    /\ ~form.loading

\* the run that ended got its token, made its API call and the call succeeded
Succeeded(d) == d.gotToken /\ d.parsed /\ d.hasId /\ d.called /\ d.apiOk

\* this step is the end of a handler run of the form
RunEnds == form'.done # form.done /\ form'.done.op # "none"

\* this step is a call of patchUser or deleteUser that returned at its first line
ReturnsAtOnce == form'.early # "none" /\ form'.early # form.early

\* C11: patchUser and deleteUser called with no user loaded do nothing (no
\* loading, no message, no token acquisition, no API call); a failed patchUser
\* or deleteUser leaves the loaded user unchanged, a failed fetchUser and a
\* successful deleteUser clear it, a successful fetchUser or patchUser replaces
\* it with the API result, and nothing else changes it; update and delete are
\* never called with an empty id.
C11_LoadedUser ==
    /\ [](form.kind = "ManageUsersForm" =>
            \A i \in InFlight("api") :
                form.runs[i].api.call \in {"AdminUserService.update", "AdminUserService.delete"} =>
                    /\ form.runs[i].api.id # ""
                    /\ form.runs[i].api.id = userId(form.user))
    /\ [][form.kind = "ManageUsersForm" =>
            /\ ReturnsAtOnce =>
                /\ form' = [form EXCEPT !.early = form'.early]
                /\ getResult' = NoCall
                /\ UNCHANGED <<localStorage, token, ctx>>
            /\ RunEnds =>
                LET d == form'.done IN
                CASE d.op = "fetchUser" ->
                        form'.user = IF Succeeded(d) THEN d.result ELSE JNull
                  [] d.op = "patchUser" ->
                        form'.user = IF Succeeded(d) THEN d.result ELSE form.user
                  [] d.op = "deleteUser" ->
                        form'.user = IF Succeeded(d) THEN JNull ELSE form.user
                  [] OTHER -> FALSE
            /\ ~RunEnds => form'.user = form.user]_vars

C11_Witness ==
    /\ form.kind = "ManageUsersForm"
    /\ form.done.op = "patchUser"
    /\ form.done.gotToken
    /\ ~form.done.hasId
    /\ ~form.done.called
    /\ form.user = UserEmptyId
    /\ form.msg = "error"

(******************* properties of the Auth0 role fetches *******************)
\* C12: a role fetch that settles after its effect run was cancelled (by a
\* later run of the effect or by the unmount) does not write the role list;
\* the role list changes only when the effect runs unauthenticated (to empty)
\* or when the fetch of the most recent effect run settles (to the roles of
\* its token, or to empty when it failed); once isAuthenticated is false and
\* the effect has run the role list is empty.
C12_CancelledFetch ==
    /\ [](provider = "Auth0" =>
            /\ (~sdk.isAuthenticated /\ effect = "idle") =>
                (roles = <<>> /\ ctx.roles = <<>> /\ \A i \in 1..Len(fetches) : fetches[i].cancelled)
            /\ \A i \in 1..Len(fetches) : ~fetches[i].cancelled => fetches[i].latest)
    /\ [][provider = "Auth0" =>
            /\ (settled'.kind # "none" /\ settled'.cancelled) =>
                (roles' = roles /\ ctx' = ctx)
            /\ roles' # roles =>
                \/ roles' = <<>> /\ ~sdk.isAuthenticated /\ effect = "due"
                \/ /\ settled'.kind = "rejected"
                   /\ ~settled'.cancelled
                   /\ settled'.latest
                   /\ roles' = <<>>
                \/ /\ settled'.kind = "resolved"
                   /\ ~settled'.cancelled
                   /\ settled'.latest
                   /\ roles' = extractRoles(PayloadOf[settled'.token])]_vars

C12_Witness ==
    /\ provider = "Auth0"
    /\ settled.kind = "resolved"
    /\ settled.cancelled
    /\ settled.token = TokAdminNoExp
    /\ extractRoles(PayloadOf[settled.token]) # <<>>
    /\ ~sdk.isAuthenticated
    /\ effect = "idle"
    /\ roles = <<>>

(******************* properties of the local token store ********************)
\* C13: in local mode, once the mount effect has run, the token state and the
\* stored item agree (both absent or the same value) whatever calls were made
\* and however much time passed; the two change only when a pending
\* loginWithCredentials resolves (to its token) and when logout runs, by a
\* call or from getAccessToken on an expired token (to absent), so a failed
\* loginWithCredentials and a signup leave them unchanged; login changes only
\* the location hash.
C13_TokenStore ==
    /\ [](LocalReady => token = localStorage)
    /\ [][LocalReady =>
            /\ <<token, localStorage>>' # <<token, localStorage>> =>
                \/ /\ Len(pending') = Len(pending) - 1
                   /\ token' \in Tokens
                   /\ localStorage' = token'
                \/ /\ pending' = pending
                   /\ token' = Null
                   /\ localStorage' = Null
                   /\ lastOp'.kind = "logout" \/ getResult'.kind = "Session expired"
            /\ hash' # hash =>
                /\ hash' = "#/login"
                /\ UNCHANGED <<localStorage, token, pending, lastOp, isLoading, ctx>>]_vars

C13_Witness ==
    /\ LocalReady
    /\ lastOp = [kind |-> "login", done |-> TRUE, ok |-> FALSE, result |-> Null]
    /\ hash = "#/login"
    /\ token = TokExpThree
    /\ localStorage = TokExpThree
    /\ ExpiredAt(TokExpThree, nowSeconds)

=============================================================================
